---- MODULE Spec2Model ----
(***************************************************************************)
(* Verification model of the fleet-coordination core (the socket.io        *)
(* handler of backend/src/websocket/socketHandler.js: registry of UAV      *)
(* sessions, liveness sweep, score-based master election) and of the       *)
(* ISAC mode arbiter (determineISACMode / applyHysteresis).                *)
(*                                                                         *)
(* Conventions.  Coordinates are fixed-point numbers in units of 1e-4      *)
(* degree, so that CENTER_POINT is exact.  Scores are kept as score*100    *)
(* (the code rounds to two decimals).  Times are milliseconds.  A JS       *)
(* object with optional fields is a record whose DOMAIN has the field or   *)
(* not.  socket.io delivers the 'disconnect' event synchronously inside    *)
(* Socket.disconnect() (Socket._onclose sets connected = false and then    *)
(* emits 'disconnect'), and does nothing on an already closed socket.      *)
(***************************************************************************)
EXTENDS Integers, Sequences, FiniteSets, TLC

Null == "null"

\* ---------------------------------------------------------------- bounds
MaxSockets == 2
MaxTicks == 2
MaxDetections == 3
MaxCommands == 2
MaxCommandTicks == 2

\* ------------------------------------------------------ program constants
TIMEOUT_MS == 30000
SWEEP_INTERVAL_MS == 60000
MASTER_ROTATION_INTERVAL_MS == 5 * 60 * 1000
WEIGHT_SNR == 40
WEIGHT_BATTERY == 30
WEIGHT_DISTANCE == 30
DEFAULT_SNR == 50
DEFAULT_SCORE_BATTERY == 50
DEFAULT_REGISTER_BATTERY == 100
CENTER_LAT == 225726
CENTER_LNG == 883639
CoordUnit == 10000
GOOD_MIN == 75
MEDIUM_MIN == 40
DWELL_TICKS == 5
COMMAND_TIMEOUT_MS == 10000
SIMULATOR_GOOD_MIN == 70
SIMULATOR_MEDIUM_MIN == 45
SIMULATOR_SIGNAL_MIN == 10
SIMULATOR_SIGNAL_MAX == 95
CONFIG_GOOD_MIN == 75
CONFIG_MEDIUM_MIN == 40
HIGH_CONFIDENCE == 80
ESSENTIAL_CONFIDENCE == 60
VIDEO_BYTES == 500000
DETECTION_BYTES == 200
MODEL_BYTES == 50000
ENVIRONMENT_BYTES == 1000
TELEMETRY_BYTES == 500
COMPRESSED_VIDEO_BYTES == 150000
ESSENTIAL_DETECTION_BYTES == 100
CRITICAL_TELEMETRY_BYTES == 200
COORDINATE_BYTES == 50
MINIMAL_TELEMETRY_BYTES == 100

\* The clock advances in steps of one liveness timeout.
TickMs == TIMEOUT_MS

\* The model starts from the server idle since its start, one sweep
\* interval before the first master rotation is due: no connection was
\* accepted yet and the sweeps so far found an empty registry.
StartMs == MASTER_ROTATION_INTERVAL_MS - SWEEP_INTERVAL_MS

\* ------------------------------------------------------------ input sets
Ids == {"uav-1", "uav-2"}
Batteries == {0, 40}
\* The centre itself (distance 0) and a point 1.2 deg / 1.6 deg away
\* (distance exactly 2 degrees, inverse distance 0.5).
Positions == {<<225726, 883639, 0>>, <<237726, 899639, 0>>}

RegisterData ==
    {[uavId |-> u, position |-> p] : u \in Ids, p \in Positions}
    \cup {[uavId |-> u, position |-> p, battery |-> b] :
              u \in Ids, p \in Positions, b \in Batteries}

StatusData ==
    {[velocity |-> <<0, 0, 0>>]}
    \cup {[battery |-> b] : b \in Batteries}
    \cup {[position |-> p] : p \in Positions}

\* Signal strengths (percent) handed to the mode decision: both sides of
\* each threshold.
Signals == {20, 39, 40, 50, 74, 75, 80}

\* The scenario of the specification's section 8.
Scenario == <<80, 80, 80, 80, 80, 50, 50, 50, 50, 50, 50>>

Has(data, field) == field \in DOMAIN data

VARIABLES
    connectedUAVs,     \* the Map, as the sequence of its values in insertion order
    sockets,           \* sockets accepted so far: [connected, uavId (the closure variable)]
    currentMasterId,
    now,               \* Date.now()
    nextSweep,         \* due time of the cleanupInterval timer
    nextRotation,      \* due time of the masterRotationInterval timer
    emitted,           \* io.emit broadcasts of the last handled event, in order
    lastEvent,         \* the last handled event
    previousMode,      \* applyHysteresis.previousMode (null: not yet set)
    modeSwitchTimer,   \* applyHysteresis.modeSwitchTimer
    lastResult,        \* what the last determineISACMode call returned
    recent,            \* the last DWELL_TICKS calls: candidate, committed mode before,
                       \* output, length of the run of this candidate
    scenarioTick,      \* n when the calls so far are the first n signals of Scenario, else -1
    soloState,         \* per simulated UAV: the static state applyHysteresis would
                       \* have had it been called for this UAV's signals only
    lastSolo,          \* the UAV of the last call and the mode it would have got alone
    sensorData,        \* the raw sensor payload handed to simulateDataTransmission
    txMode,            \* the mode handed to simulateDataTransmission
    transmissionData,  \* the package it returned (isacMode null: not yet called)
    scoredUav,         \* the session handed to calculateUAVScore
    uavScore,          \* <<its score * 100>>, empty before the call
    signalInput,       \* a signal strength whose candidate mode is asked for
    candidates,        \* the candidate modes computed for it (empty: not yet)
    broadcastHistory,  \* per id: the last of uav_connected / uav_disconnected
                       \* broadcast for it so far ("none": neither yet)
    commands           \* the send_command calls accepted so far, each with its
                       \* listeners, its timer and the acknowledgements made

isacVars == <<previousMode, modeSwitchTimer, lastResult, recent, scenarioTick>>

soloVars == <<soloState, lastSolo>>

txVars == <<sensorData, txMode, transmissionData>>

cmdVars == <<commands>>

thresholdVars == <<signalInput, candidates>>

scoreVars == <<scoredUav, uavScore>>

fleetVars == <<connectedUAVs, sockets, currentMasterId, now, nextSweep,
               nextRotation, emitted, lastEvent, broadcastHistory>>

\* ------------------------------------------------------- Map operations
MapHas(uavs, id) == \E i \in 1..Len(uavs) : uavs[i].id = id

MapGet(uavs, id) == uavs[CHOOSE i \in 1..Len(uavs) : uavs[i].id = id]

MapDelete(uavs, id) == SelectSeq(uavs, LAMBDA e : e.id # id)

\* Map.set keeps the position of an existing key and appends a new one.
MapSet(uavs, id, entry) ==
    IF MapHas(uavs, id)
    THEN [i \in 1..Len(uavs) |-> IF uavs[i].id = id THEN entry ELSE uavs[i]]
    ELSE Append(uavs, entry)

MapKeys(uavs) == [i \in 1..Len(uavs) |-> uavs[i].id]

\* ------------------------------------------------------------- election
getConnectedUavIds(uavs, socks) ==
    MapKeys(SelectSeq(uavs, LAMBDA e : socks[e.socket].connected))

\* Squared distance to CENTER_POINT, in (1e-4 degree)^2.
Distance2(position) ==
    (position[1] - CENTER_LAT) * (position[1] - CENTER_LAT)
    + (position[2] - CENTER_LNG) * (position[2] - CENTER_LNG)

\* TRUE iff 10 * WEIGHT_DISTANCE * normalizedDistance >= m, where
\* normalizedDistance = min(1, 1/distance) and 1 when distance = 0.
\* For distance > 1:  m <= 300 * CoordUnit / sqrt(d2)
\*                <=> m <= 0 \/ d2 <= floor(9e12 / m^2).
DistanceTermGeq(m, d2) ==
    IF d2 <= CoordUnit * CoordUnit
    THEN m <= 10 * WEIGHT_DISTANCE
    ELSE \/ m <= 0
         \/ /\ m < 10 * WEIGHT_DISTANCE
            /\ LET sq == m * m
                   q1 == 900000000 \div sq
                   r1 == 900000000 % sq
               IN  \/ q1 >= 214748
                   \/ d2 <= q1 * 10000 + (r1 * 10000) \div sq

Clamp100(x) == IF x < 0 THEN 0 ELSE IF x > 100 THEN 100 ELSE x

\* The weighted sum of calculateUAVScore, as score * 100: Math.round(score
\* * 100) is the largest k with k <= score*100 + 0.5.
WeightedScore(snr, battery, position) ==
    LET \* 10 * (WEIGHT_SNR * normalizedSNR + WEIGHT_BATTERY * normalizedBattery)
        a == (WEIGHT_SNR * Clamp100(snr) + WEIGHT_BATTERY * Clamp100(battery)) \div 10
        d2 == Distance2(position)
    IN  CHOOSE k \in ((a + 5) \div 10)..((a + 5) \div 10 + WEIGHT_DISTANCE) :
            /\ DistanceTermGeq(10 * k - a - 5, d2)
            /\ ~DistanceTermGeq(10 * (k + 1) - a - 5, d2)

\* calculateUAVScore: the metrics with their '||' defaults, then the
\* weighted sum.  Sessions of the registry carry no signalStrength field (no
\* handler stores one), so their snr is the default.
calculateUAVScore(uav) ==
    LET snr == IF Has(uav, "signalStrength") /\ uav.signalStrength # 0
               THEN uav.signalStrength ELSE DEFAULT_SNR
        battery == IF uav.battery # 0 THEN uav.battery ELSE DEFAULT_SCORE_BATTERY
    IN  WeightedScore(snr, battery, uav.position)

\* The id the stable sort by descending score puts first: the first id, in
\* Map order, whose score is maximal.
BestUavId(uavs, ids) ==
    LET score(i) == calculateUAVScore(MapGet(uavs, ids[i]))
        best == CHOOSE i \in 1..Len(ids) :
                    /\ \A j \in 1..Len(ids) : score(j) <= score(i)
                    /\ \A j \in 1..(i - 1) : score(j) < score(i)
    IN  ids[best]

\* Mutant: the election made among all registered ids, connected or not.
electNextMaster_AnyRegistered(st) ==
    LET ids == MapKeys(st.uavs)
    IN  IF Len(ids) = 0
        THEN [st EXCEPT !.master = Null]
        ELSE [st EXCEPT !.master = BestUavId(st.uavs, ids)]

\* electNextMaster on the handler state st = [uavs, socks, master, out].
electNextMaster(st) ==
    LET ids == getConnectedUavIds(st.uavs, st.socks)
    IN  IF Len(ids) = 0
        THEN [st EXCEPT !.master = Null]
        ELSE [st EXCEPT !.master = BestUavId(st.uavs, ids)]

\* ------------------------------------------------------ ISAC mode arbiter
\* calculateDataRate, in kbit/s (the code's Mbit/s times 1000):
\* baseRate * (signalStrength / 100) * efficiency, at least 0.1 Mbit/s.
calculateDataRate(signalStrength, qualityLevel) ==
    LET rate == CASE qualityLevel = "high" -> 450 * signalStrength
                  [] qualityLevel = "medium" -> 140 * signalStrength
                  [] qualityLevel = "low" -> 25 * signalStrength
                  [] OTHER -> 3 * signalStrength
    IN  IF rate < 100 THEN 100 ELSE rate

\* Mutant: the switch made one tick early.
applyHysteresis_ShortDwell(hs, currentMode, signalStrength) ==
    LET prev == IF hs.previousMode = Null THEN currentMode ELSE hs.previousMode
        timer == IF hs.previousMode = Null THEN 0 ELSE hs.modeSwitchTimer
    IN  IF currentMode # prev
        THEN IF timer + 1 < DWELL_TICKS - 1
             THEN [mode |-> prev, switched |-> FALSE,
                   previousMode |-> prev, modeSwitchTimer |-> timer + 1]
             ELSE [mode |-> currentMode, switched |-> TRUE,
                   previousMode |-> currentMode, modeSwitchTimer |-> 0]
        ELSE [mode |-> currentMode, switched |-> FALSE,
              previousMode |-> prev, modeSwitchTimer |-> 0]

\* applyHysteresis on its static state hs = [previousMode, modeSwitchTimer]:
\* the returned {mode, switched} and the static state afterwards.
applyHysteresis(hs, currentMode, signalStrength) ==
    LET prev == IF hs.previousMode = Null THEN currentMode ELSE hs.previousMode
        timer == IF hs.previousMode = Null THEN 0 ELSE hs.modeSwitchTimer
    IN  IF currentMode # prev
        THEN IF timer + 1 < DWELL_TICKS
             THEN [mode |-> prev, switched |-> FALSE,
                   previousMode |-> prev, modeSwitchTimer |-> timer + 1]
             ELSE [mode |-> currentMode, switched |-> TRUE,
                   previousMode |-> currentMode, modeSwitchTimer |-> 0]
        ELSE [mode |-> currentMode, switched |-> FALSE,
              previousMode |-> prev, modeSwitchTimer |-> 0]

\* The candidate mode of a signal strength.
CandidateMode(signalStrength) ==
    IF signalStrength >= GOOD_MIN THEN "good"
    ELSE IF signalStrength >= MEDIUM_MIN THEN "medium"
    ELSE "weak"

QualityLevel(mode) ==
    CASE mode = "good" -> "high" [] mode = "medium" -> "medium" [] OTHER -> "low"

\* determineISACMode from the signal strength on (the path-loss estimate
\* before it is an input): the returned object, with the candidate and the
\* hysteresis outcome alongside.
determineISACMode(hs, signalStrength) ==
    LET isacMode == CandidateMode(signalStrength)
        dataRate == calculateDataRate(signalStrength, QualityLevel(isacMode))
        result == applyHysteresis(hs, isacMode, signalStrength)
    IN  [isacMode |-> result.mode,
         signalStrength |-> signalStrength,
         dataRate |-> dataRate,
         candidate |-> isacMode,
         switched |-> result.switched,
         previousMode |-> result.previousMode,
         modeSwitchTimer |-> result.modeSwitchTimer]

LastN(seq, n) == IF Len(seq) <= n THEN seq ELSE SubSeq(seq, Len(seq) - n + 1, Len(seq))

\* How many ticks in a row, the coming one included, had this candidate
\* (counted up to DWELL_TICKS + 1).
RunLength(seq, candidate) ==
    IF Len(seq) = 0 \/ seq[Len(seq)].candidate # candidate THEN 1
    ELSE IF seq[Len(seq)].run > DWELL_TICKS THEN DWELL_TICKS + 1
    ELSE seq[Len(seq)].run + 1

ISACInit ==
    /\ previousMode = Null
    /\ modeSwitchTimer = 0
    /\ lastResult = [isacMode |-> Null]
    /\ recent = <<>>
    /\ scenarioTick = 0

\* One simulation tick: determineISACMode on the tick's signal strength.
DetermineISACMode ==
    \E signalStrength \in Signals :
        LET r == determineISACMode([previousMode |-> previousMode,
                                    modeSwitchTimer |-> modeSwitchTimer],
                                   signalStrength)
        IN  /\ previousMode' = r.previousMode
            /\ modeSwitchTimer' = r.modeSwitchTimer
            /\ lastResult' = [isacMode |-> r.isacMode,
                              signalStrength |-> r.signalStrength,
                              dataRate |-> r.dataRate,
                              switched |-> r.switched]
            /\ recent' = LastN(Append(recent, [candidate |-> r.candidate,
                                               before |-> previousMode,
                                               mode |-> r.isacMode,
                                               run |-> RunLength(recent, r.candidate)]),
                               DWELL_TICKS)
            /\ scenarioTick' = IF /\ scenarioTick >= 0
                                  /\ scenarioTick < Len(Scenario)
                                  /\ signalStrength = Scenario[scenarioTick + 1]
                               THEN scenarioTick + 1
                               ELSE -1

\* The UAVs of the multi-UAV simulation loop.
SimUavs == {"UAV-001", "UAV-002"}

SoloInit ==
    /\ soloState = [u \in SimUavs |-> [previousMode |-> Null, modeSwitchTimer |-> 0]]
    /\ lastSolo = [uav |-> Null, isacMode |-> Null]

\* The simulation loop over several UAVs, one determineISACMode call per
\* UAV and tick, in any order: the call runs on the module's one static
\* state; alongside, the same call is replayed on a state that only this
\* UAV's calls have touched.
DetermineISACModeForUav ==
    \E u \in SimUavs, signalStrength \in Signals :
        LET r == determineISACMode([previousMode |-> previousMode,
                                    modeSwitchTimer |-> modeSwitchTimer],
                                   signalStrength)
            solo == determineISACMode(soloState[u], signalStrength)
        IN  /\ previousMode' = r.previousMode
            /\ modeSwitchTimer' = r.modeSwitchTimer
            /\ lastResult' = [isacMode |-> r.isacMode,
                              signalStrength |-> r.signalStrength,
                              dataRate |-> r.dataRate,
                              switched |-> r.switched]
            /\ soloState' = [soloState EXCEPT
                                ![u] = [previousMode |-> solo.previousMode,
                                        modeSwitchTimer |-> solo.modeSwitchTimer]]
            /\ lastSolo' = [uav |-> u, isacMode |-> solo.isacMode]
            /\ UNCHANGED <<recent, scenarioTick>>


\* ------------------------------------------------- transmission filter
\* Detection confidences, in percent: both thresholds and values around them.
Confidences == {50, 60, 80, 85, 90}

\* The mode strings a caller can pass.
Modes == {"good", "medium", "weak", "GOOD", "offline"}

\* A detection as simulateSensorData makes it (the n-th of its list).
Detection(n, confidence) ==
    [id |-> n, coordinates |-> <<n, n>>, confidence |-> confidence,
     type |-> "human", timestamp |-> n, status |-> "detected"]

DetectionLists ==
    UNION {{[n \in 1..len |-> Detection(n, c[n])] : c \in [1..len -> Confidences]} :
           len \in 0..MaxDetections}

\* A camera frame without a data buffer (objects that a null can take the
\* place of are named by a string).
VideoFrame == "video_frame"

Telemetry == [position |-> <<1, 2, 3>>, batteryLevel |-> 80, altitude |-> 50, speed |-> 5]

\* A record with the field only when it is there.
Optional(present, field) == IF present THEN field ELSE <<>>

\* The raw payloads: every component present or absent.
SensorPayloads ==
    {  Optional(v, [videoFrame |-> VideoFrame])
    @@ Optional(m, [modelUpdates |-> "weights"])
    @@ Optional(e, [environmentalData |-> "environment"])
    @@ Optional(t, [telemetry |-> Telemetry])
    @@ d :
       v \in BOOLEAN, m \in BOOLEAN, e \in BOOLEAN, t \in BOOLEAN,
       d \in {<<>>} \cup {[detections |-> l, detectionMetadata |-> Len(l)] :
                          l \in DetectionLists} }

toLowerCase(mode) == IF mode = "GOOD" THEN "good" ELSE mode

\* transmissionData with the fields assigned and dataSizeBytes increased.
Assign(td, fields, bytes) ==
    [(fields @@ td) EXCEPT !.dataSizeBytes = @ + bytes]

\* The compressed frame, named by its data member.
compressVideoFrame(videoFrame, ratio) ==
    IF videoFrame = Null THEN Null ELSE "compressed_video_data"

filterEssentialDetections(detections) ==
    LET kept == SelectSeq(detections, LAMBDA d : d.confidence > ESSENTIAL_CONFIDENCE)
    IN  [n \in 1..Len(kept) |->
            [id |-> kept[n].id, coordinates |-> kept[n].coordinates,
             confidence |-> kept[n].confidence, type |-> kept[n].type,
             timestamp |-> kept[n].timestamp]]

\* Mutant: the threshold itself passes the weak-mode filter.
filterHighConfidenceDetections_AtLeast(detections) ==
    LET kept == SelectSeq(detections, LAMBDA d : d.confidence >= HIGH_CONFIDENCE)
    IN  [n \in 1..Len(kept) |->
            [id |-> kept[n].id, coordinates |-> kept[n].coordinates,
             confidence |-> kept[n].confidence]]

filterHighConfidenceDetections(detections) ==
    LET kept == SelectSeq(detections, LAMBDA d : d.confidence > HIGH_CONFIDENCE)
    IN  [n \in 1..Len(kept) |->
            [id |-> kept[n].id, coordinates |-> kept[n].coordinates,
             confidence |-> kept[n].confidence]]

filterCriticalTelemetry(telemetry) ==
    [position |-> telemetry.position, batteryLevel |-> telemetry.batteryLevel,
     altitude |-> telemetry.altitude, timestamp |-> "now"]

processGoodModeData(sd, td) ==
    LET t1 == IF Has(sd, "videoFrame")
              THEN Assign(td, [videoStream |-> sd.videoFrame, videoQuality |-> "1080p",
                               videoCompression |-> "none"], VIDEO_BYTES)
              ELSE td
        t2 == IF Has(sd, "detections")
              THEN Assign(t1, [detections |-> sd.detections,
                               detectionMetadata |-> sd.detectionMetadata],
                          Len(sd.detections) * DETECTION_BYTES)
              ELSE t1
        t3 == IF Has(sd, "modelUpdates")
              THEN Assign(t2, [modelUpdates |-> sd.modelUpdates], MODEL_BYTES)
              ELSE t2
        t4 == IF Has(sd, "environmentalData")
              THEN Assign(t3, [environmentalData |-> sd.environmentalData],
                          ENVIRONMENT_BYTES)
              ELSE t3
    IN  IF Has(sd, "telemetry")
        THEN Assign(t4, [telemetry |-> sd.telemetry], TELEMETRY_BYTES)
        ELSE t4

\* Mutant: the medium mode charging every raw detection, kept or not.
processMediumModeData_ChargingRaw(sd, td) ==
    LET t1 == IF Has(sd, "videoFrame")
              THEN Assign(td, [videoStream |-> compressVideoFrame(sd.videoFrame, 30),
                               videoQuality |-> "480p", videoCompression |-> "high"],
                          COMPRESSED_VIDEO_BYTES)
              ELSE td
        t2 == IF Has(sd, "detections")
              THEN Assign(t1, [detections |-> filterEssentialDetections(sd.detections)],
                          Len(sd.detections) * ESSENTIAL_DETECTION_BYTES)
              ELSE t1
        t3 == IF Has(sd, "telemetry")
              THEN Assign(t2, [telemetry |-> filterCriticalTelemetry(sd.telemetry)],
                          CRITICAL_TELEMETRY_BYTES)
              ELSE t2
    IN  Assign(t3, [modelUpdates |-> Null], 0)

processMediumModeData(sd, td) ==
    LET t1 == IF Has(sd, "videoFrame")
              THEN Assign(td, [videoStream |-> compressVideoFrame(sd.videoFrame, 30),
                               videoQuality |-> "480p", videoCompression |-> "high"],
                          COMPRESSED_VIDEO_BYTES)
              ELSE td
        kept == filterEssentialDetections(sd.detections)
        t2 == IF Has(sd, "detections")
              THEN Assign(t1, [detections |-> kept],
                          Len(kept) * ESSENTIAL_DETECTION_BYTES)
              ELSE t1
        t3 == IF Has(sd, "telemetry")
              THEN Assign(t2, [telemetry |-> filterCriticalTelemetry(sd.telemetry)],
                          CRITICAL_TELEMETRY_BYTES)
              ELSE t2
    IN  Assign(t3, [modelUpdates |-> Null], 0)

\* Mutant: the weak mode forwarding the frame and the model weights.
processWeakModeData_Forwarding(sd, td) ==
    processGoodModeData(sd, td)

processWeakModeData(sd, td) ==
    LET t1 == Assign(td, [videoStream |-> Null, videoQuality |-> "none"], 0)
        kept == filterHighConfidenceDetections(sd.detections)
        t2 == IF Has(sd, "detections")
              THEN Assign(t1, [detections |-> kept], Len(kept) * COORDINATE_BYTES)
              ELSE t1
        t3 == IF Has(sd, "telemetry")
              THEN Assign(t2, [telemetry |-> [position |-> sd.telemetry.position,
                                              batteryLevel |-> sd.telemetry.batteryLevel,
                                              timestamp |-> "now"]],
                          MINIMAL_TELEMETRY_BYTES)
              ELSE t2
    IN  Assign(t3, [modelUpdates |-> Null, environmentalData |-> Null], 0)

\* dataSizeBytes / dataRateBps * 1.2, in microseconds (rounded down).
estimateTransmissionTime(dataSizeBytes, mode) ==
    CASE toLowerCase(mode) = "good" -> (dataSizeBytes * 24) \div 125
      [] toLowerCase(mode) = "medium" -> (dataSizeBytes * 12) \div 25
      [] toLowerCase(mode) = "weak" -> (dataSizeBytes * 48) \div 25
      [] OTHER -> (dataSizeBytes * 48) \div 5

simulateDataTransmission(sd, mode) ==
    LET td == [isacMode |-> mode, dataSizeBytes |-> 0,
               compressionApplied |-> (mode # "good"),
               estimatedTransmissionTime |-> 0]
        filled == CASE toLowerCase(mode) = "good" -> processGoodModeData(sd, td)
                    [] toLowerCase(mode) = "medium" -> processMediumModeData(sd, td)
                    [] OTHER -> processWeakModeData(sd, td)
    IN  [filled EXCEPT !.estimatedTransmissionTime =
                           estimateTransmissionTime(filled.dataSizeBytes, mode)]

\* Before any payload has been prepared.
NoPackage == [isacMode |-> Null]

TxIdle ==
    /\ sensorData = <<>>
    /\ txMode = Null
    /\ transmissionData = NoPackage

\* A payload and a mode about to be handed to the filter.
TxInputs ==
    /\ sensorData \in SensorPayloads
    /\ txMode \in Modes
    /\ transmissionData = NoPackage

SimulateDataTransmission ==
    /\ transmissionData.isacMode = Null
    /\ txMode # Null
    /\ transmissionData' = simulateDataTransmission(sensorData, txMode)
    /\ UNCHANGED <<sensorData, txMode>>


\* ------------------------------------------------------ mode thresholds
\* Signal strengths in percent.
SignalRange == 0..100

\* UAVSimulator.determineUAVISACMode from the signal strength (target plus
\* variation) on: the clamp, the mode, the data rate in 0.1 Mbit/s.
determineUAVISACMode(signal) ==
    LET signalStrength == IF signal < SIMULATOR_SIGNAL_MIN THEN SIMULATOR_SIGNAL_MIN
                          ELSE IF signal > SIMULATOR_SIGNAL_MAX THEN SIMULATOR_SIGNAL_MAX
                          ELSE signal
    IN  IF signalStrength >= SIMULATOR_GOOD_MIN
        THEN [isacMode |-> "good", signalStrength |-> signalStrength,
              dataRate |-> 450 + (signalStrength - SIMULATOR_GOOD_MIN) * 5]
        ELSE IF signalStrength >= SIMULATOR_MEDIUM_MIN
        THEN [isacMode |-> "medium", signalStrength |-> signalStrength,
              dataRate |-> 250 + (signalStrength - SIMULATOR_MEDIUM_MIN) * 8]
        ELSE [isacMode |-> "weak", signalStrength |-> signalStrength,
              dataRate |-> 100 + signalStrength * 3]

\* The candidate mode under SimulationConfig.isacThresholds.
ConfiguredMode(signal) ==
    IF signal >= CONFIG_GOOD_MIN THEN "good"
    ELSE IF signal >= CONFIG_MEDIUM_MIN THEN "medium"
    ELSE "weak"

ThresholdIdle ==
    /\ signalInput = 0
    /\ candidates = <<>>

ThresholdInputs ==
    /\ signalInput \in SignalRange
    /\ candidates = <<>>

\* The same signal strength classified by the arbiter, by the simulator
\* loop and by the configured thresholds.
ClassifySignal ==
    /\ candidates = <<>>
    /\ candidates' = [arbiter |-> CandidateMode(signalInput),
                      simulator |-> determineUAVISACMode(signalInput).isacMode,
                      configured |-> ConfiguredMode(signalInput)]
    /\ UNCHANGED signalInput


\* ------------------------------------------------------------ the score
\* Levels (percent) a metric is held at while the other one sweeps its range.
MetricLevels == {0, 40, 100}

MetricRange == 0..100

\* Sessions handed to calculateUAVScore: one metric over its whole range,
\* the other at a level, at the centre and away from it.
ScoredSessions ==
    {[id |-> "uav-1", socket |-> 1, position |-> p, battery |-> b,
      signalStrength |-> g, lastSeen |-> 0] :
        p \in Positions,
        b \in MetricRange, g \in MetricLevels}
    \cup
    {[id |-> "uav-1", socket |-> 1, position |-> p, battery |-> b,
      signalStrength |-> g, lastSeen |-> 0] :
        p \in Positions,
        b \in MetricLevels, g \in MetricRange}

ScoreIdle ==
    /\ scoredUav = [id |-> Null]
    /\ uavScore = <<>>

ScoreInputs ==
    /\ scoredUav \in ScoredSessions
    /\ uavScore = <<>>

CalculateUAVScore ==
    /\ uavScore = <<>>
    /\ scoredUav.id # Null
    /\ uavScore' = <<calculateUAVScore(scoredUav)>>
    /\ UNCHANGED scoredUav


\* ------------------------------------------------------------- handlers
\* Handlers are functions on the handler state
\*   st = [uavs, socks, master, out]
\* (the registry, the sockets, currentMasterId, the broadcasts made so far),
\* so that a handler run synchronously inside another composes with it.

Broadcast(st, msg) == [st EXCEPT !.out = Append(@, msg)]

\* Mutant: the session removed without the re-election of the master.
OnDisconnect_NoReelection(st, s) ==
    LET uavId == st.socks[s].uavId
    IN  IF uavId = Null \/ ~MapHas(st.uavs, uavId)
        THEN st
        ELSE IF MapGet(st.uavs, uavId).socket # s
        THEN st
        ELSE LET st1 == [st EXCEPT !.uavs = MapDelete(@, uavId)]
             IN  Broadcast(st1, [event |-> "uav_disconnected",
                                 uavId |-> uavId,
                                 isMaster |-> (st1.master = uavId),
                                 currentMasterId |-> st1.master,
                                 reason |-> "disconnect"])

\* socket.on('disconnect') of socket s; its closure variable uavId is
\* st.socks[s].uavId.
OnDisconnect(st, s) ==
    LET uavId == st.socks[s].uavId
    IN  IF uavId = Null \/ ~MapHas(st.uavs, uavId)
        THEN st
        ELSE IF MapGet(st.uavs, uavId).socket # s
        THEN st
        ELSE LET st1 == [st EXCEPT !.uavs = MapDelete(@, uavId)]
                 st2 == IF st1.master = uavId THEN electNextMaster(st1) ELSE st1
             IN  Broadcast(st2, [event |-> "uav_disconnected",
                                 uavId |-> uavId,
                                 isMaster |-> (st2.master = uavId),
                                 currentMasterId |-> st2.master,
                                 reason |-> "disconnect"])

\* Socket.disconnect() of socket.io, called by the server: nothing on a
\* closed socket, else connected = false and the 'disconnect' event fires.
SocketDisconnect(st, s) ==
    IF ~st.socks[s].connected
    THEN st
    ELSE OnDisconnect([st EXCEPT !.socks[s].connected = FALSE], s)

\* Mutant: the previous instance of the id is left connected.
OnRegisterUav_KeepPrevious(st, s, data, t) ==
    LET uavId == data.uavId
        st1 == [st EXCEPT !.socks[s].uavId = uavId]
        battery == IF Has(data, "battery") /\ data.battery # 0
                   THEN data.battery ELSE DEFAULT_REGISTER_BATTERY
        st3 == [st1 EXCEPT !.uavs = MapSet(@, uavId,
                    [id |-> uavId, socket |-> s, position |-> data.position,
                     battery |-> battery, lastSeen |-> t])]
        st4 == IF st3.master = Null THEN electNextMaster(st3) ELSE st3
    IN  Broadcast(st4, [event |-> "uav_connected",
                        uavId |-> uavId,
                        position |-> data.position,
                        battery |-> battery,
                        isMaster |-> (st4.master = uavId),
                        currentMasterId |-> st4.master])

\* socket.on('register_uav') of socket s at time t.
\* Mutant: no election at registration.
OnRegisterUav_NoElection(st, s, data, t) ==
    LET uavId == data.uavId
        battery == IF Has(data, "battery") /\ data.battery # 0
                   THEN data.battery ELSE DEFAULT_REGISTER_BATTERY
        st3 == [st EXCEPT !.socks[s].uavId = uavId,
                          !.uavs = MapSet(@, uavId,
                    [id |-> uavId, socket |-> s, position |-> data.position,
                     battery |-> battery, lastSeen |-> t])]
    IN  Broadcast(st3, [event |-> "uav_connected",
                        uavId |-> uavId,
                        position |-> data.position,
                        battery |-> battery,
                        isMaster |-> (st3.master = uavId),
                        currentMasterId |-> st3.master])

\* Mutant: the registration made without the uav_connected broadcast.
OnRegisterUav_Unannounced(st, s, data, t) ==
    LET uavId == data.uavId
        st1 == [st EXCEPT !.socks[s].uavId = uavId]
        st2 == IF /\ MapHas(st1.uavs, uavId)
                  /\ st1.socks[MapGet(st1.uavs, uavId).socket].connected
               THEN SocketDisconnect(st1, MapGet(st1.uavs, uavId).socket)
               ELSE st1
        battery == IF Has(data, "battery") /\ data.battery # 0
                   THEN data.battery ELSE DEFAULT_REGISTER_BATTERY
        st3 == [st2 EXCEPT !.uavs = MapSet(@, uavId,
                    [id |-> uavId, socket |-> s, position |-> data.position,
                     battery |-> battery, lastSeen |-> t])]
    IN  IF st3.master = Null THEN electNextMaster(st3) ELSE st3

OnRegisterUav(st, s, data, t) ==
    LET uavId == data.uavId
        st1 == [st EXCEPT !.socks[s].uavId = uavId]
        st2 == IF /\ MapHas(st1.uavs, uavId)
                  /\ st1.socks[MapGet(st1.uavs, uavId).socket].connected
               THEN SocketDisconnect(st1, MapGet(st1.uavs, uavId).socket)
               ELSE st1
        battery == IF Has(data, "battery") /\ data.battery # 0
                   THEN data.battery ELSE DEFAULT_REGISTER_BATTERY
        st3 == [st2 EXCEPT !.uavs = MapSet(@, uavId,
                    [id |-> uavId, socket |-> s, position |-> data.position,
                     battery |-> battery, lastSeen |-> t])]
        st4 == IF st3.master = Null THEN electNextMaster(st3) ELSE st3
    IN  Broadcast(st4, [event |-> "uav_connected",
                        uavId |-> uavId,
                        position |-> data.position,
                        battery |-> battery,
                        isMaster |-> (st4.master = uavId),
                        currentMasterId |-> st4.master])

\* socket.on('uav_status'), past its two guards: the update of the session
\* of uavId, the election when there is no master, the broadcast.
ApplyUavStatus(st, uavId, data, t) ==
    LET uav == MapGet(st.uavs, uavId)
        upd == [uav EXCEPT
                   !.position = IF Has(data, "position") THEN data.position ELSE @,
                   !.battery = IF Has(data, "battery") THEN data.battery ELSE @,
                   !.lastSeen = t]
        st1 == [st EXCEPT !.uavs = MapSet(@, uavId, upd)]
        st2 == IF st1.master = Null THEN electNextMaster(st1) ELSE st1
    IN  Broadcast(st2, [event |-> "uav_status_update",
                        uavId |-> uavId,
                        position |-> upd.position,
                        battery |-> upd.battery,
                        isMaster |-> (st2.master = uavId),
                        currentMasterId |-> st2.master])

\* Mutant: the guards dropped, the election and the broadcast made also for
\* a socket without a session.
OnUavStatus_NoGuard(st, s, data, t) ==
    LET uavId == st.socks[s].uavId
    IN  IF uavId # Null /\ MapHas(st.uavs, uavId)
        THEN ApplyUavStatus(st, uavId, data, t)
        ELSE LET st2 == IF st.master = Null THEN electNextMaster(st) ELSE st
             IN  Broadcast(st2, [event |-> "uav_status_update",
                                 uavId |-> uavId,
                                 isMaster |-> (st2.master = uavId),
                                 currentMasterId |-> st2.master])

\* socket.on('uav_status') of socket s at time t.
OnUavStatus(st, s, data, t) ==
    LET uavId == st.socks[s].uavId
    IN  IF uavId = Null THEN st
        ELSE IF ~MapHas(st.uavs, uavId) THEN st
        ELSE ApplyUavStatus(st, uavId, data, t)

\* The liveness test of the sweep.
TimedOut(uav, t) == t - uav.lastSeen > TIMEOUT_MS

\* The body of connectedUAVs.forEach in the cleanupInterval callback, for
\* the keys still to visit: Map.forEach skips an entry deleted before its
\* turn.
RECURSIVE SweepFrom(_, _, _)
SweepFrom(st, keys, t) ==
    IF Len(keys) = 0 THEN st
    ELSE LET uavId == Head(keys)
         IN  IF ~MapHas(st.uavs, uavId) \/ ~TimedOut(MapGet(st.uavs, uavId), t)
             THEN SweepFrom(st, Tail(keys), t)
             ELSE LET st1 == SocketDisconnect(st, MapGet(st.uavs, uavId).socket)
                      st2 == [st1 EXCEPT !.uavs = MapDelete(@, uavId)]
                      st3 == Broadcast(st2, [event |-> "uav_disconnected",
                                             uavId |-> uavId,
                                             isMaster |-> (st2.master = uavId),
                                             currentMasterId |-> st2.master,
                                             reason |-> "timeout"])
                  IN  SweepFrom(st3, Tail(keys), t)

\* Mutant: a sweep that removes nothing.
OnCleanupInterval_Idle(st, t) == st

OnCleanupInterval(st, t) == SweepFrom(st, MapKeys(st.uavs), t)

\* ------------------------------------------------------------- commands
\* The clock step while commands are in flight: one command timeout.
CommandTickMs == COMMAND_TIMEOUT_MS

\* send_command payloads: a target id, or none.
CommandData == {[uavId |-> id] : id \in Ids} \cup {[command |-> "land"]}

\* send_command requests: the payload, and whether the client passed an
\* acknowledgement callback (a request without one is enumerated for the
\* payload without target).
CommandRequests ==
    {[data |-> d, callback |-> TRUE] : d \in CommandData}
    \cup {[data |-> [command |-> "land"], callback |-> FALSE]}

\* Registrations of the fleet that commands are sent to.
CommandRegisterData == {d \in RegisterData : d.position[1] = CENTER_LAT /\ ~Has(d, "battery")}

CommandInit == commands = <<>>

\* The error send_command answers at once, or null when it accepts.
SendCommandError(st, data) ==
    IF ~Has(data, "uavId") THEN "No UAV ID specified"
    ELSE IF \/ ~MapHas(st.uavs, data.uavId)
            \/ ~st.socks[MapGet(st.uavs, data.uavId).socket].connected
         THEN "UAV not connected"
         ELSE Null

\* What the guards of send_command do with the error: 'return
\* callback({success: false, error})', which throws a TypeError when the
\* client passed no callback.
SendCommandOutcome(s, error, callback) ==
    [type |-> "send_command", socket |-> s,
     accepted |-> (error = Null),
     error |-> error,
     acknowledged |-> (error # Null /\ callback),
     threw |-> (error # Null /\ ~callback)]

\* socket.on('send_command') past its guards: the command emitted to the
\* UAV's socket, onResponse and the once-listener registered on the socket
\* the request came from, the timer armed.
OnSendCommand(cmds, st, s, data, t) ==
    Append(cmds, [commandId |-> Len(cmds) + 1,
                  issuer |-> s,
                  target |-> data.uavId,
                  targetSocket |-> MapGet(st.uavs, data.uavId).socket,
                  deadline |-> t + COMMAND_TIMEOUT_MS,
                  onResponse |-> TRUE,
                  once |-> TRUE,
                  timeout |-> TRUE,
                  results |-> <<>>])

\* A command_response event arriving on socket s: the listeners registered
\* on s run, each for its own command.  onResponse acknowledges and removes
\* itself on its commandId; the once-listener is spent by the first event
\* and clears the timer only on its commandId.
OnCommandResponse(cmds, s, commandId, t) ==
    [k \in 1..Len(cmds) |->
        IF cmds[k].issuer # s THEN cmds[k]
        ELSE [cmds[k] EXCEPT
                 !.onResponse = @ /\ commandId # cmds[k].commandId,
                 !.results = IF cmds[k].onResponse /\ commandId = cmds[k].commandId
                             THEN Append(@, [kind |-> "response", at |-> t])
                             ELSE @,
                 !.once = FALSE,
                 !.timeout = @ /\ ~(cmds[k].once /\ commandId = cmds[k].commandId)]]

\* Mutant: the timer only removes the listener.
OnCommandTimeout_Silent(cmds, k, t) ==
    [cmds EXCEPT ![k].onResponse = FALSE, ![k].timeout = FALSE]

\* The 10 s timer of command k fires: onResponse removed, the callback
\* called with the 'Command timeout' failure.
OnCommandTimeout(cmds, k, t) ==
    [cmds EXCEPT ![k].onResponse = FALSE,
                 ![k].timeout = FALSE,
                 ![k].results = Append(@, [kind |-> "timeout", at |-> t])]


\* --------------------------------------------------------------- actions
Cur == [uavs |-> connectedUAVs, socks |-> sockets,
        master |-> currentMasterId, out |-> <<>>]

\* What a broadcast adds to the history of its UAV id.
Record(h, msg) ==
    IF msg.event = "uav_connected" THEN [h EXCEPT ![msg.uavId] = "connected"]
    ELSE IF msg.event = "uav_disconnected" THEN [h EXCEPT ![msg.uavId] = "disconnected"]
    ELSE h

RECURSIVE Replay(_, _)
Replay(h, out) ==
    IF Len(out) = 0 THEN h ELSE Replay(Record(h, Head(out)), Tail(out))

\* A closed socket receives no further event, so its closure variable is
\* dead: it is kept as null.
Commit(st, ev) ==
    /\ connectedUAVs' = st.uavs
    /\ sockets' = [i \in 1..Len(st.socks) |->
                       IF st.socks[i].connected THEN st.socks[i]
                       ELSE [st.socks[i] EXCEPT !.uavId = Null]]
    /\ currentMasterId' = st.master
    /\ emitted' = st.out
    /\ broadcastHistory' = Replay(broadcastHistory, st.out)
    /\ lastEvent' = ev

NoEvent == [type |-> "none", socket |-> 0]

FleetInit ==
    /\ connectedUAVs = <<>>
    /\ sockets = <<>>
    /\ currentMasterId = Null
    /\ now = StartMs
    /\ nextSweep = StartMs + SWEEP_INTERVAL_MS
    /\ nextRotation = MASTER_ROTATION_INTERVAL_MS
    /\ emitted = <<>>
    /\ broadcastHistory = [id \in Ids |-> "none"]
    /\ lastEvent = NoEvent

\* io.on('connection'): a new socket, its closure variable uavId = null.
Connection ==
    /\ Len(sockets) < MaxSockets
    /\ Commit([Cur EXCEPT !.socks = Append(@, [connected |-> TRUE, uavId |-> Null])],
              [type |-> "connection", socket |-> Len(sockets) + 1])
    /\ UNCHANGED <<now, nextSweep, nextRotation>>

RegisterUav ==
    \E s \in 1..Len(sockets), data \in RegisterData :
        /\ sockets[s].connected
        /\ Commit(OnRegisterUav(Cur, s, data, now),
                  [type |-> "register_uav", socket |-> s])
        /\ UNCHANGED <<now, nextSweep, nextRotation>>

UavStatus ==
    \E s \in 1..Len(sockets), data \in StatusData :
        /\ sockets[s].connected
        /\ Commit(OnUavStatus(Cur, s, data, now),
                  [type |-> "uav_status", socket |-> s])
        /\ UNCHANGED <<now, nextSweep, nextRotation>>

\* The client closes the connection (or the transport drops).
Disconnect ==
    \E s \in 1..Len(sockets) :
        /\ sockets[s].connected
        /\ Commit(SocketDisconnect(Cur, s),
                  [type |-> "disconnect", socket |-> s,
                   uavId |-> sockets[s].uavId,
                   wasMaster |-> (sockets[s].uavId # Null
                                  /\ currentMasterId = sockets[s].uavId),
                   justRegistered |-> (lastEvent.type = "register_uav"
                                       /\ lastEvent.socket = s)])
        /\ UNCHANGED <<now, nextSweep, nextRotation>>

CleanupInterval ==
    /\ now >= nextSweep
    /\ Commit(OnCleanupInterval(Cur, now), [type |-> "sweep", socket |-> 0])
    /\ nextSweep' = nextSweep + SWEEP_INTERVAL_MS
    /\ UNCHANGED <<now, nextRotation>>

MasterRotation ==
    /\ now >= nextRotation
    /\ Commit(electNextMaster(Cur), [type |-> "rotation", socket |-> 0])
    /\ nextRotation' = nextRotation + MASTER_ROTATION_INTERVAL_MS
    /\ UNCHANGED <<now, nextSweep>>

\* Time passes; a due timer fires before the clock moves on.
Tick ==
    /\ now + TickMs <= StartMs + MaxTicks * TickMs
    /\ now < nextSweep
    /\ now < nextRotation
    /\ now' = now + TickMs
    /\ emitted' = <<>>
    /\ lastEvent' = [type |-> "tick", socket |-> 0]
    /\ UNCHANGED <<connectedUAVs, sockets, currentMasterId, nextSweep, nextRotation,
                   broadcastHistory>>

\* register_uav of a UAV that commands will be sent to: the UAV client
\* registers once, when its socket connects.
CommandRegisterUav ==
    \E s \in 1..Len(sockets), data \in CommandRegisterData :
        /\ sockets[s].connected
        /\ sockets[s].uavId = Null
        /\ Commit(OnRegisterUav(Cur, s, data, now),
                  [type |-> "register_uav", socket |-> s])
        /\ UNCHANGED <<now, nextSweep, nextRotation>>

\* socket.on('send_command') on socket s.
SendCommand ==
    \E s \in 1..Len(sockets), request \in CommandRequests :
        /\ sockets[s].connected
        /\ Len(commands) < MaxCommands
        /\ now + COMMAND_TIMEOUT_MS <= StartMs + MaxCommandTicks * CommandTickMs
        /\ LET error == SendCommandError(Cur, request.data)
           IN  /\ commands' = IF error = Null
                              THEN OnSendCommand(commands, Cur, s, request.data, now)
                              ELSE commands
               /\ lastEvent' = SendCommandOutcome(s, error, request.callback)
        /\ emitted' = <<>>
        /\ UNCHANGED <<connectedUAVs, sockets, currentMasterId, now, nextSweep,
                       nextRotation, broadcastHistory>>

\* A client emits command_response with some commandId on its socket.
CommandResponse ==
    \E s \in 1..Len(sockets), commandId \in 1..Len(commands) :
        /\ sockets[s].connected
        /\ commands' = OnCommandResponse(commands, s, commandId, now)
        /\ lastEvent' = [type |-> "command_response", socket |-> s,
                         commandId |-> commandId]
        /\ emitted' = <<>>
        /\ UNCHANGED <<connectedUAVs, sockets, currentMasterId, now, nextSweep,
                       nextRotation, broadcastHistory>>

\* The timer of a command fires when its 10 s are over.
CommandTimeout ==
    \E k \in 1..Len(commands) :
        /\ commands[k].timeout
        /\ now >= commands[k].deadline
        /\ commands' = OnCommandTimeout(commands, k, now)
        /\ lastEvent' = [type |-> "command_timeout", socket |-> 0, commandId |-> k]
        /\ emitted' = <<>>
        /\ UNCHANGED <<connectedUAVs, sockets, currentMasterId, now, nextSweep,
                       nextRotation, broadcastHistory>>

\* Time passes while commands are in flight; a due timer fires first.
CommandTick ==
    /\ now + CommandTickMs <= StartMs + MaxCommandTicks * CommandTickMs
    /\ \A k \in 1..Len(commands) : commands[k].timeout => now < commands[k].deadline
    /\ now' = now + CommandTickMs
    /\ emitted' = <<>>
    /\ lastEvent' = [type |-> "tick", socket |-> 0]
    /\ UNCHANGED <<connectedUAVs, sockets, currentMasterId, nextSweep, nextRotation,
                   broadcastHistory, commands>>

FleetNext ==
    \/ Connection
    \/ RegisterUav
    \/ UavStatus
    \/ Disconnect
    \/ CleanupInterval
    \/ MasterRotation
    \/ Tick

vars == <<connectedUAVs, sockets, currentMasterId, now, nextSweep, nextRotation,
          emitted, lastEvent, previousMode, modeSwitchTimer, lastResult, recent,
          scenarioTick, soloState, lastSolo, sensorData, txMode,
          transmissionData, broadcastHistory, commands, signalInput, candidates,
          scoredUav, uavScore>>

Init == FleetInit /\ ISACInit /\ SoloInit /\ TxIdle /\ CommandInit /\ ThresholdIdle /\ ScoreIdle

\* The coordinator: the socket handlers and the two timers.
Next == FleetNext /\ UNCHANGED <<isacVars, soloVars, txVars, cmdVars, thresholdVars, scoreVars>>

Spec == Init /\ [][Next]_vars

\* The mode arbiter, called tick after tick.
NextISAC == DetermineISACMode /\ UNCHANGED <<fleetVars, soloVars, txVars, cmdVars, thresholdVars, scoreVars>>

SpecISAC == Init /\ [][NextISAC]_vars

\* The mode arbiter, called for several UAVs in turn.
NextMultiISAC == DetermineISACModeForUav /\ UNCHANGED <<fleetVars, txVars, cmdVars, thresholdVars, scoreVars>>

SpecMultiISAC == Init /\ [][NextMultiISAC]_vars

\* The transmission filter on every payload and mode.
InitTx == FleetInit /\ ISACInit /\ SoloInit /\ TxInputs /\ CommandInit /\ ThresholdIdle /\ ScoreIdle

NextTx == SimulateDataTransmission /\ UNCHANGED <<fleetVars, isacVars, soloVars, cmdVars, thresholdVars, scoreVars>>

SpecTx == InitTx /\ [][NextTx]_vars

\* The command relay: dashboards and UAVs on their sockets, the 10 s timers.
NextCommand ==
    /\ \/ (Connection \/ CommandRegisterUav \/ Disconnect) /\ UNCHANGED cmdVars
       \/ SendCommand
       \/ CommandResponse
       \/ CommandTimeout
       \/ CommandTick
    /\ UNCHANGED <<isacVars, soloVars, txVars, thresholdVars, scoreVars>>

\* Node fires a due timer and the clock moves on.
SpecCommand ==
    /\ Init
    /\ [][NextCommand]_vars
    /\ WF_vars(CommandTimeout /\ UNCHANGED <<isacVars, soloVars, txVars, thresholdVars, scoreVars>>)
    /\ WF_vars(CommandTick /\ UNCHANGED <<isacVars, soloVars, txVars, thresholdVars, scoreVars>>)

\* The threshold tables, side by side on every signal strength.
InitThreshold ==
    FleetInit /\ ISACInit /\ SoloInit /\ TxIdle /\ CommandInit /\ ThresholdInputs
    /\ ScoreIdle

NextThreshold ==
    ClassifySignal
    /\ UNCHANGED <<fleetVars, isacVars, soloVars, txVars, cmdVars, scoreVars>>

SpecThreshold == InitThreshold /\ [][NextThreshold]_vars

\* The score function on its own: one session, scored once.
InitScore ==
    FleetInit /\ ISACInit /\ SoloInit /\ TxIdle /\ CommandInit /\ ThresholdIdle
    /\ ScoreInputs

NextScore ==
    CalculateUAVScore
    /\ UNCHANGED <<fleetVars, isacVars, soloVars, txVars, cmdVars, thresholdVars>>

SpecScore == InitScore /\ [][NextScore]_vars


\* ------------------------------------------------------- claim helpers
ConnectedIdSet == {connectedUAVs[i].id : i \in
                      {j \in 1..Len(connectedUAVs) : sockets[connectedUAVs[j].socket].connected}}

DisconnectedCount(out, id) ==
    Cardinality({i \in 1..Len(out) :
                    out[i].event = "uav_disconnected" /\ out[i].uavId = id})

\* C1: after every handled event currentMasterId is null or the id of a
\* registered session whose socket is connected.
C1_MasterIsConnectedSession ==
    currentMasterId = Null \/ currentMasterId \in ConnectedIdSet

\* C2: a disconnect or sweep step that removes the session of the current
\* master ends with currentMasterId null or the id of another connected
\* session, never still the removed id.
C2_MasterRemovalReelects ==
    [][(/\ lastEvent'.type \in {"disconnect", "sweep"}
        /\ currentMasterId # Null
        /\ MapHas(connectedUAVs, currentMasterId)
        /\ ~MapHas(connectedUAVs', currentMasterId))
       => /\ currentMasterId' # currentMasterId
          /\ currentMasterId' = Null \/ currentMasterId' \in ConnectedIdSet']_vars

\* C3: electNextMaster yields a connected id when there is one and null
\* otherwise, changes nothing but currentMasterId, and a second call on the
\* unchanged registry yields the same state; the rotation timer stores
\* exactly that id.
C3_ElectionMemberIdempotent ==
    LET st1 == electNextMaster(Cur)
    IN  /\ ConnectedIdSet = {} => st1.master = Null
        /\ ConnectedIdSet # {} => st1.master \in ConnectedIdSet
        /\ st1.uavs = connectedUAVs /\ st1.socks = sockets
        /\ electNextMaster(st1) = st1
        /\ lastEvent.type = "rotation" => currentMasterId = st1.master

C3_Witness ==
    /\ lastEvent.type = "rotation"
    /\ Cardinality(ConnectedIdSet) = 2
    /\ Len(connectedUAVs) = 2
    /\ currentMasterId = connectedUAVs[2].id

C5_SweepExactlyOnce ==
    [][lastEvent'.type = "sweep" =>
          /\ connectedUAVs' = SelectSeq(connectedUAVs, LAMBDA e : ~TimedOut(e, now))
          /\ \A i \in 1..Len(connectedUAVs) :
                DisconnectedCount(emitted', connectedUAVs[i].id)
                    = IF TimedOut(connectedUAVs[i], now) THEN 1 ELSE 0]_vars

\* C6: a uav_status on a socket without a registered session changes
\* neither the registry nor currentMasterId and broadcasts nothing.
C6_UnknownHeartbeatNoOp ==
    [][(/\ lastEvent'.type = "uav_status"
        /\ \/ sockets[lastEvent'.socket].uavId = Null
           \/ ~MapHas(connectedUAVs, sockets[lastEvent'.socket].uavId))
       => /\ connectedUAVs' = connectedUAVs
          /\ sockets' = sockets
          /\ currentMasterId' = currentMasterId
          /\ emitted' = <<>>]_vars

\* A heartbeat of a socket that never registered, with a session of
\* another socket in the registry.
C6_Witness ==
    /\ lastEvent.type = "uav_status"
    /\ sockets[lastEvent.socket].uavId = Null
    /\ emitted = <<>>
    /\ Len(connectedUAVs) > 0

\* C7: register_uav of id A on a socket followed by the disconnect of that
\* socket leaves no session of A, and currentMasterId is not A.
C7_RegisterRemoveRoundTrip ==
    [][(/\ lastEvent.type = "register_uav"
        /\ lastEvent'.type = "disconnect"
        /\ lastEvent'.socket = lastEvent.socket)
       => LET a == emitted[Len(emitted)].uavId
          IN  /\ ~MapHas(connectedUAVs', a)
              /\ currentMasterId' # a]_vars

\* The disconnect, right after its registration, of the socket of the
\* session that was the master.
C7_Witness ==
    /\ lastEvent.type = "disconnect"
    /\ lastEvent.justRegistered
    /\ lastEvent.wasMaster
    /\ ~MapHas(connectedUAVs, lastEvent.uavId)
    /\ currentMasterId # lastEvent.uavId

\* C8: the returned mode differs from the mode returned on the tick before
\* only if the candidate differed from that committed mode on this tick and
\* on each of the 4 ticks before it, the committed mode being the same all
\* along; and a tick whose candidate is the committed mode leaves the dwell
\* counter at zero.
C8_NoSwitchBeforeDwell ==
    LET n == Len(recent)
    IN  /\ (n >= 2 /\ recent[n].mode # recent[n - 1].mode) =>
              /\ n = DWELL_TICKS
              /\ \A i \in 1..n : /\ recent[i].candidate # recent[n - 1].mode
                                 /\ recent[i].before = recent[n - 1].mode
        /\ (n >= 1 /\ recent[n].candidate = recent[n].before) =>
              modeSwitchTimer = 0 /\ recent[n].mode = recent[n].before

\* A switch committed at the end of a full dwell.
C8_Witness ==
    /\ Len(recent) = DWELL_TICKS
    /\ lastResult.isacMode # Null
    /\ lastResult.switched
    /\ recent[DWELL_TICKS].mode # recent[DWELL_TICKS - 1].mode

\* C9: when one candidate X, different from the committed mode M, is seen
\* on 5 consecutive ticks (the tick before them had another candidate), the
\* output is M on the first 4 of them and X, newly committed, on the 5th;
\* and on the scenario of section 8 the output is GOOD on ticks 1 to 9 and
\* MEDIUM from tick 10.
C9_CommitOnFifthTick ==
    /\ (/\ Len(recent) = DWELL_TICKS
        /\ recent[DWELL_TICKS].run = DWELL_TICKS
        /\ recent[1].before # Null
        /\ recent[1].candidate # recent[1].before)
       => /\ \A i \in 1..(DWELL_TICKS - 1) : recent[i].mode = recent[1].before
          /\ recent[DWELL_TICKS].mode = recent[1].candidate
          /\ lastResult.switched
    /\ scenarioTick >= 1 =>
          lastResult.isacMode = IF scenarioTick <= 9 THEN "good" ELSE "medium"

\* C10: a mode is committed only at the end of 5 consecutive ticks on which
\* that very mode was the candidate.
C10_DwellCountsOwnCandidate ==
    (lastResult.isacMode # Null /\ lastResult.switched) =>
        /\ Len(recent) = DWELL_TICKS
        /\ \A i \in 1..DWELL_TICKS : recent[i].candidate = lastResult.isacMode

\* C11: evaluated for several UAVs in any interleaved order, every call
\* returns for its UAV the mode that UAV would get were it evaluated alone
\* on its own signal sequence.
C11_PerUavHysteresis ==
    lastSolo.uav # Null => lastResult.isacMode = lastSolo.isacMode

Produced == transmissionData.isacMode # Null

IncludesVideo(td) == Has(td, "videoStream") /\ td.videoStream # Null

IncludesModelUpdates(td) == Has(td, "modelUpdates") /\ td.modelUpdates # Null

\* C12: the package never includes video when the mode is WEAK and never
\* includes model updates when the mode is not GOOD.
C12_NoVideoWeakNoModelBelowGood ==
    Produced =>
        /\ toLowerCase(txMode) = "weak" => ~IncludesVideo(transmissionData)
        /\ toLowerCase(txMode) # "good" => ~IncludesModelUpdates(transmissionData)

C12_Witness ==
    /\ Produced
    /\ txMode = "weak"
    /\ Has(sensorData, "videoFrame")
    /\ Has(sensorData, "modelUpdates")
    /\ Has(transmissionData, "videoStream")
    /\ ~IncludesVideo(transmissionData)
    /\ ~IncludesModelUpdates(transmissionData)

\* What identifies a detection: its id, coordinates and confidence.
Identity(detections) ==
    [n \in 1..Len(detections) |->
        [id |-> detections[n].id, coordinates |-> detections[n].coordinates,
         confidence |-> detections[n].confidence]]

Above(detections, threshold) ==
    SelectSeq(detections, LAMBDA d : d.confidence > threshold)

\* C13: the detections of the package are exactly the input detections
\* with confidence > 0.8 in WEAK mode, with confidence > 0.6 in MEDIUM mode
\* and all of them in GOOD mode, in input order, none added; for the
\* confidences [0.9, 0.85, 0.5] in WEAK mode exactly the first two.
C13_DetectionsByConfidence ==
    (Produced /\ Has(sensorData, "detections")) =>
        /\ toLowerCase(txMode) = "weak" =>
               Identity(transmissionData.detections)
                   = Identity(Above(sensorData.detections, HIGH_CONFIDENCE))
        /\ toLowerCase(txMode) = "medium" =>
               Identity(transmissionData.detections)
                   = Identity(Above(sensorData.detections, ESSENTIAL_CONFIDENCE))
        /\ toLowerCase(txMode) = "good" =>
               transmissionData.detections = sensorData.detections
        /\ (/\ txMode = "weak"
             /\ Len(sensorData.detections) = 3
             /\ sensorData.detections[1].confidence = 90
             /\ sensorData.detections[2].confidence = 85
             /\ sensorData.detections[3].confidence = 50) =>
               /\ Len(transmissionData.detections) = 2
               /\ transmissionData.detections[1].id = 1
               /\ transmissionData.detections[2].id = 2

C13_Witness ==
    /\ Produced
    /\ txMode = "weak"
    /\ Has(sensorData, "detections")
    /\ Len(sensorData.detections) = 3
    /\ sensorData.detections[1].confidence = 90
    /\ sensorData.detections[2].confidence = 80
    /\ sensorData.detections[3].confidence = 85
    /\ Len(transmissionData.detections) = 2
    /\ transmissionData.detections[2].id = 3

\* C14: every detection record of a WEAK-mode package carries the
\* detection's coordinates and confidence and no other field of the input.
C14_WeakCoordinatesOnly ==
    (Produced /\ toLowerCase(txMode) = "weak" /\ Has(sensorData, "detections")) =>
        \A n \in 1..Len(transmissionData.detections) :
            DOMAIN transmissionData.detections[n] = {"coordinates", "confidence"}

\* The score the election is specified to use: calculateUAVScore on the
\* battery the session holds, a battery of 0 counting as 0.
ActualScore(uav) ==
    IF uav.battery = 0
    THEN calculateUAVScore([uav EXCEPT !.battery = DEFAULT_SCORE_BATTERY])
         - (WEIGHT_BATTERY * DEFAULT_SCORE_BATTERY) \div 100
    ELSE calculateUAVScore(uav)

\* Three UAVs with (signal, battery, distance to the centre) =
\* (90, 95, 0.001), (60, 70, 0.01), (30, 40, 0.02).
ScenarioFleet ==
    << [id |-> "uav-1", socket |-> 1, position |-> <<CENTER_LAT + 10, CENTER_LNG, 0>>,
        battery |-> 95, signalStrength |-> 90, lastSeen |-> 0],
       [id |-> "uav-2", socket |-> 2, position |-> <<CENTER_LAT + 100, CENTER_LNG, 0>>,
        battery |-> 70, signalStrength |-> 60, lastSeen |-> 0],
       [id |-> "uav-3", socket |-> 3, position |-> <<CENTER_LAT + 200, CENTER_LNG, 0>>,
        battery |-> 40, signalStrength |-> 30, lastSeen |-> 0] >>

IsMaximal(id, score(_)) ==
    \A other \in ConnectedIdSet :
        score(MapGet(connectedUAVs, id)) >= score(MapGet(connectedUAVs, other))

\* C15: every election sets currentMasterId to a connected session whose
\* weighted score, computed from the signal, battery and position the
\* session actually has, is maximal among the connected sessions; in the
\* three-UAV scenario UAV 1 is elected.
C15_ElectsMaximalScore ==
    LET st1 == electNextMaster(Cur)
    IN  /\ st1.master # Null =>
               /\ st1.master \in ConnectedIdSet
               /\ IsMaximal(st1.master, ActualScore)
        /\ (lastEvent.type = "rotation" /\ currentMasterId # Null) =>
               IsMaximal(currentMasterId, ActualScore)
        /\ BestUavId(ScenarioFleet, MapKeys(ScenarioFleet)) = "uav-1"

\* The ids in lexicographic order.
IdRank(id) == CHOOSE n \in 1..2 : <<"uav-1", "uav-2">>[n] = id

\* C16: when several connected sessions share the highest score, the
\* elected master is the lexicographically smallest of their ids, whatever
\* the registration order.
C16_TieBreakSmallestId ==
    (lastEvent.type = "rotation" /\ currentMasterId # Null) =>
        \A other \in ConnectedIdSet :
            calculateUAVScore(MapGet(connectedUAVs, other))
                = calculateUAVScore(MapGet(connectedUAVs, currentMasterId))
            => IdRank(currentMasterId) <= IdRank(other)

\* C17: register_uav while currentMasterId is null runs an election inside
\* the handler: at its end currentMasterId is not null, the uav_connected
\* broadcast carries it, and a registering UAV that is the only connected
\* session is the master.
C17_FirstRegistrationElects ==
    [][(lastEvent'.type = "register_uav" /\ currentMasterId = Null) =>
          /\ currentMasterId' # Null
          /\ currentMasterId' \in ConnectedIdSet'
          /\ Len(emitted') >= 1
          /\ emitted'[Len(emitted')].event = "uav_connected"
          /\ emitted'[Len(emitted')].currentMasterId = currentMasterId'
          /\ emitted'[Len(emitted')].isMaster
                 = (emitted'[Len(emitted')].uavId = currentMasterId')
          /\ ConnectedIdSet' = {emitted'[Len(emitted')].uavId}
                 => currentMasterId' = emitted'[Len(emitted')].uavId]_vars

C17_Witness ==
    /\ lastEvent.type = "register_uav"
    /\ Len(emitted) = 1
    /\ emitted[1].event = "uav_connected"
    /\ emitted[1].isMaster
    /\ Len(connectedUAVs) = 2
    /\ Cardinality(ConnectedIdSet) = 1

Pending(k) == k <= Len(commands) /\ commands[k].results = <<>>

Resolved(k) ==
    /\ k <= Len(commands)
    /\ commands[k].results # <<>>
    /\ ~commands[k].onResponse

TimedOut10s(k) ==
    /\ Resolved(k)
    /\ commands[k].results = <<[kind |-> "timeout", at |-> commands[k].deadline]>>
    /\ ~commands[k].timeout

\* C18: an accepted send_command that gets no command_response with its
\* commandId within 10 s is resolved as failed ('Command timeout') at the
\* 10 s timeout and its response listener is removed: no waiter stays
\* pending for ever.
C18_TimeoutReleasesWaiter ==
    \A k \in 1..MaxCommands :
        /\ (k <= Len(commands)) ~> Resolved(k)
        /\ [](k <= Len(commands) =>
                 /\ now > commands[k].deadline => Resolved(k)
                 /\ (Resolved(k) /\ commands[k].results[1].kind = "timeout")
                        => TimedOut10s(k)
                 /\ ~commands[k].timeout => ~commands[k].onResponse)

C18_Witness ==
    /\ Len(commands) = 2
    /\ TimedOut10s(1)
    /\ commands[1].issuer # commands[1].targetSocket
    /\ Pending(2)
    /\ now = commands[1].deadline

\* C19: a command_response with the commandId of a pending command, sent by
\* the target UAV before the timeout, reaches the issuer's acknowledgement,
\* also when issuer and UAV are on different sockets.
C19_ResponseReachesIssuer ==
    [][\A k \in 1..Len(commands) :
          (/\ lastEvent'.type = "command_response"
           /\ lastEvent'.commandId = commands[k].commandId
           /\ lastEvent'.socket = commands[k].targetSocket
           /\ Pending(k)
           /\ commands[k].timeout)
          => commands'[k].results = <<[kind |-> "response", at |-> now]>>]_vars

\* C20: the disconnect of a UAV invalidates, in the handling of that event,
\* every pending command addressed to it (the waiter resolved as failed and
\* released), and clears the UAV's session and master state.
C20_DisconnectCancelsPending ==
    [][\A k \in 1..Len(commands) :
          (/\ lastEvent'.type = "disconnect"
           /\ lastEvent'.socket = commands[k].targetSocket
           /\ lastEvent'.uavId = commands[k].target
           /\ Pending(k))
          => /\ Resolved(k)'
             /\ ~commands'[k].timeout
             /\ ~MapHas(connectedUAVs', commands[k].target)
             /\ currentMasterId' # commands[k].target]_vars

Silent(uav) == now - uav.lastSeen > TIMEOUT_MS

\* C21: a registered UAV that has been silent for more than the liveness
\* timeout is removed, with a uav_disconnected broadcast for it, by the
\* sweep, which comes within one sweep interval of the timeout; once
\* removed it is listed and broadcast as connected only after a new
\* register_uav.
C21_SilentUavSwept ==
    /\ [][/\ lastEvent'.type = "sweep" =>
               \A i \in 1..Len(connectedUAVs) :
                   Silent(connectedUAVs[i]) =>
                       /\ ~MapHas(connectedUAVs', connectedUAVs[i].id)
                       /\ DisconnectedCount(emitted', connectedUAVs[i].id) >= 1
           /\ \A id \in Ids :
                   (~MapHas(connectedUAVs, id) /\ MapHas(connectedUAVs', id))
                       => lastEvent'.type = "register_uav"
           /\ \A n \in 1..Len(emitted') :
                   emitted'[n].event \in {"uav_connected", "uav_status_update"}
                       => MapHas(connectedUAVs', emitted'[n].uavId)]_vars
    /\ [](\A i \in 1..Len(connectedUAVs) :
              /\ now <= nextSweep
              /\ nextSweep <= connectedUAVs[i].lastSeen + TIMEOUT_MS + SWEEP_INTERVAL_MS)

C21_Witness ==
    /\ lastEvent.type = "sweep"
    /\ Len(emitted) = 2
    /\ emitted[2].event = "uav_disconnected"
    /\ emitted[2].reason = "timeout"
    /\ ~MapHas(connectedUAVs, emitted[2].uavId)
    /\ Len(connectedUAVs) = 1
    /\ connectedUAVs[1].lastSeen + TIMEOUT_MS = now
    /\ sockets[connectedUAVs[1].socket].connected

\* C22: in every interleaving of register, heartbeat, disconnect and sweep
\* events, a uav_status_update for id X is broadcast only while the last
\* of the uav_connected / uav_disconnected broadcasts for X is a
\* uav_connected: never before the first uav_connected for X, never after a
\* uav_disconnected for X without a uav_connected in between.
C22_ConsistentBroadcastHistory ==
    [][\A n \in 1..Len(emitted') :
          emitted'[n].event = "uav_status_update" =>
              Replay(broadcastHistory, SubSeq(emitted', 1, n - 1))[emitted'[n].uavId]
                  = "connected"]_vars

C22_Witness ==
    /\ lastEvent.type = "uav_status"
    /\ Len(emitted) = 1
    /\ emitted[1].event = "uav_status_update"
    /\ broadcastHistory[emitted[1].uavId] = "connected"
    /\ \E id \in Ids : broadcastHistory[id] = "disconnected"

\* C23: for every signal strength in 0..100 the candidate mode is the same
\* whether computed by determineISACMode, by
\* UAVSimulator.determineUAVISACMode or from the configured isacThresholds.
C23_ThresholdsConsistent ==
    candidates # <<>> =>
        /\ candidates.arbiter = candidates.configured
        /\ candidates.simulator = candidates.configured

\* C24: send_command with no target id, or with a target that is not
\* registered or not connected, is answered at once with an error result;
\* nothing is emitted to a UAV, no listener or timer is left, registry and
\* currentMasterId are unchanged, and the handler does not throw.
C24_RejectedCommandIsClean ==
    [][(lastEvent'.type = "send_command" /\ ~lastEvent'.accepted) =>
          /\ lastEvent'.error # Null
          /\ lastEvent'.acknowledged
          /\ ~lastEvent'.threw
          /\ commands' = commands
          /\ connectedUAVs' = connectedUAVs
          /\ sockets' = sockets
          /\ currentMasterId' = currentMasterId
          /\ emitted' = <<>>]_vars

\* C25: the data rate of every result is the one of the mode returned as
\* isacMode in that result (base 50 and efficiency 0.9 for good, 20 and 0.7
\* for medium, 5 and 0.5 for weak), also on a tick whose mode is held by
\* the hysteresis.
C25_DataRateOfCommittedMode ==
    lastResult.isacMode # Null =>
        lastResult.dataRate
            = calculateDataRate(lastResult.signalStrength,
                                QualityLevel(lastResult.isacMode))

Acknowledgements(k) == Len(commands[k].results)

\* C26: the acknowledgement callback of every accepted send_command is
\* invoked exactly once, with the UAV's response or with the timeout
\* failure and never with both, also when several commands are pending on
\* one socket and their responses arrive in any order.
C26_AcknowledgedExactlyOnce ==
    \A k \in 1..Len(commands) :
        /\ Acknowledgements(k) <= 1
        /\ (~commands[k].timeout /\ ~commands[k].onResponse)
               => Acknowledgements(k) = 1

\* C27: a disconnect event of a socket that is not the registered socket of
\* its UAV id leaves the session of that id and currentMasterId as they are
\* and broadcasts no uav_disconnected; and once the disconnect of a socket
\* is handled no registry entry is bound to that socket.
C27_DisconnectRemovesOwnEntriesOnly ==
    [][lastEvent'.type = "disconnect" =>
          LET s == lastEvent'.socket
              uavId == sockets[s].uavId
          IN  /\ (/\ uavId # Null
                  /\ MapHas(connectedUAVs, uavId)
                  /\ MapGet(connectedUAVs, uavId).socket # s)
                     => /\ MapHas(connectedUAVs', uavId)
                        /\ MapGet(connectedUAVs', uavId) = MapGet(connectedUAVs, uavId)
                        /\ currentMasterId' = currentMasterId
                        /\ DisconnectedCount(emitted', uavId) = 0
              /\ \A i \in 1..Len(connectedUAVs') : connectedUAVs'[i].socket # s]_vars

\* C28: calculateUAVScore is non-decreasing in battery and in signal
\* strength over 0..100 with the other inputs fixed, and a metric of 0
\* contributes 0 to the score.
C28_ScoreMonotone ==
    uavScore # <<>> =>
        /\ \A b \in MetricRange :
               b <= scoredUav.battery
                   => calculateUAVScore([scoredUav EXCEPT !.battery = b])
                          <= uavScore[1]
        /\ \A g \in MetricRange :
               g <= scoredUav.signalStrength
                   => calculateUAVScore([scoredUav EXCEPT !.signalStrength = g])
                          <= uavScore[1]
        /\ (scoredUav.battery = 0 \/ scoredUav.signalStrength = 0)
               => uavScore[1] = WeightedScore(scoredUav.signalStrength,
                                              scoredUav.battery,
                                              scoredUav.position)

\* C29: register_uav with an initial battery b in 0..100 stores b in the new
\* session and reports b in the uav_connected broadcast, for b = 0 too; a
\* heartbeat with battery b stores exactly b.
C29_BatteryStoredAsSent ==
    \A s \in 1..Len(sockets) :
        sockets[s].connected =>
            /\ \A data \in {d \in RegisterData : Has(d, "battery")} :
                   LET st == OnRegisterUav(Cur, s, data, now)
                   IN  /\ MapGet(st.uavs, data.uavId).battery = data.battery
                       /\ st.out[Len(st.out)].event = "uav_connected"
                       /\ st.out[Len(st.out)].battery = data.battery
            /\ \A data \in {d \in StatusData : Has(d, "battery")} :
                   (sockets[s].uavId # Null /\ MapHas(connectedUAVs, sockets[s].uavId))
                       => MapGet(OnUavStatus(Cur, s, data, now).uavs,
                                 sockets[s].uavId).battery = data.battery

\* The processing a mode name selects: 'good', 'medium', and the weak one
\* for every other name.
Processing(mode) ==
    IF toLowerCase(mode) \in {"good", "medium"} THEN toLowerCase(mode) ELSE "weak"

\* The estimate of each component a package includes, by its processing.
VideoEstimate(td) ==
    IF ~IncludesVideo(td) THEN 0
    ELSE IF Processing(td.isacMode) = "medium" THEN COMPRESSED_VIDEO_BYTES
    ELSE VIDEO_BYTES

DetectionsEstimate(td) ==
    IF ~Has(td, "detections") THEN 0
    ELSE Len(td.detections)
         * (CASE Processing(td.isacMode) = "good" -> DETECTION_BYTES
              [] Processing(td.isacMode) = "medium" -> ESSENTIAL_DETECTION_BYTES
              [] OTHER -> COORDINATE_BYTES)

ModelEstimate(td) == IF IncludesModelUpdates(td) THEN MODEL_BYTES ELSE 0

EnvironmentEstimate(td) ==
    IF Has(td, "environmentalData") /\ td.environmentalData # Null
    THEN ENVIRONMENT_BYTES ELSE 0

TelemetryEstimate(td) ==
    IF ~Has(td, "telemetry") THEN 0
    ELSE CASE Processing(td.isacMode) = "good" -> TELEMETRY_BYTES
           [] Processing(td.isacMode) = "medium" -> CRITICAL_TELEMETRY_BYTES
           [] OTHER -> MINIMAL_TELEMETRY_BYTES

SizeIn(mode) == simulateDataTransmission(sensorData, mode).dataSizeBytes

\* C30: the byte size of a package is the sum of the estimates of exactly
\* the components it includes, and for one payload the size in WEAK mode is
\* at most the size in MEDIUM mode, which is at most the size in GOOD mode.
C30_SizeIsSumAndMonotone ==
    Produced =>
        /\ transmissionData.dataSizeBytes
               = VideoEstimate(transmissionData)
                 + DetectionsEstimate(transmissionData)
                 + ModelEstimate(transmissionData)
                 + EnvironmentEstimate(transmissionData)
                 + TelemetryEstimate(transmissionData)
        /\ SizeIn("weak") <= SizeIn("medium")
        /\ SizeIn("medium") <= SizeIn("good")

C30_Witness ==
    /\ Produced
    /\ txMode = "medium"
    /\ Has(sensorData, "videoFrame")
    /\ Has(sensorData, "modelUpdates")
    /\ Has(sensorData, "telemetry")
    /\ Has(sensorData, "detections")
    /\ Len(sensorData.detections) = 2
    /\ Len(transmissionData.detections) = 1
    /\ transmissionData.dataSizeBytes
           = COMPRESSED_VIDEO_BYTES + ESSENTIAL_DETECTION_BYTES
             + CRITICAL_TELEMETRY_BYTES
    /\ SizeIn("weak") < transmissionData.dataSizeBytes
    /\ transmissionData.dataSizeBytes < SizeIn("good")

====
